---- MODULE Spec2Model ----
(***************************************************************************)
(* Model of the TodoHeroes component (src/src/components/TodoHeroes.tsx):  *)
(* the task list, its mirror in localStorage, the delete modal, the undo   *)
(* slot with its expiry timer, and the undo toasts.                        *)
(*                                                                         *)
(* Time: a Tick is 1000 ms passing, so the 3000 ms undo delay is 3 Ticks,   *)
(* and handlers that run with no Tick between them run within the same     *)
(* millisecond and read the same Date.now(); the clock can also move on by *)
(* one step between the two reads of addTask.  Texts are sequences of      *)
(* one-character strings, so that trim() is a real computation.            *)
(*                                                                         *)
(* A React handler reads the state of the render it was created in: the    *)
(* handlers wired to the page are re-created by every render and read the  *)
(* current state, while the action of an undo toast keeps the undoDelete   *)
(* of the render in which the deletion was confirmed.                      *)
(***************************************************************************)
EXTENDS Integers, Sequences, FiniteSets, TLC

\* ---------------------------------------------------------------- bounds
\* last clock value in a run of Spec and SpecEdit, and in a run of SpecUndo
MaxClock == 4
MaxUndoClock == 5
\* longest list in a run of Spec, SpecEdit and SpecUndo, and of SpecList
MaxTasks == 2
MaxListTasks == 3
\* confirmed deletions in a run of Spec, and in a run of SpecUndo
MaxDeletes == 1
MaxUndoDeletes == 4

\* ------------------------------------------------------- program constants
UndoDelay == 3
ToastDuration == 3

\* texts the user can type (new task input and edit input)
InputTexts ==
  { <<>>, <<" ">>, <<"a">>, <<" ", "a", " ">>, <<"b">> }

Filters == {"all", "pending", "completed"}

VARIABLES
  tasks,                  \* useState<Task[]>
  filter,                 \* useState<Filter>
  editingId,              \* useState<number | null>, 0 stands for null
  editText,               \* useState('')
  showDeleteModal,        \* useState(false)
  taskPendingDeleteId,    \* useState<number | null>, 0 stands for null
  taskPendingDeleteText,  \* useState('')
  undoTaskData,           \* useState<Task | null>: <<>> is null, <<t>> a task
  undoTimeoutId,          \* useState<Timeout | null>, 0 stands for null
  storedTasks,            \* localStorage[TASKS_KEY]: <<>> absent, <<items>>
                          \* the text of an array, <<"text", s>> the text s
  storedFilter,           \* localStorage[FILTER_KEY]: <<>> absent, <<f>>
  timers,                 \* pending setTimeout callbacks of confirmDeleteTask
  nextTimerId,            \* next handle returned by setTimeout
  toasts,                 \* live "Missao excluida" toasts with their closures
  now,                    \* Date.now()
  last                    \* what the last handler was, saw and reported

vars ==
  << tasks, filter, editingId, editText, showDeleteModal, taskPendingDeleteId,
     taskPendingDeleteText, undoTaskData, undoTimeoutId, storedTasks,
     storedFilter, timers, nextTimerId, toasts, now, last >>

\* ---------------------------------------------------------- pure helpers
IsSpace(c) == c = " "

RECURSIVE TrimStart(_)
TrimStart(s) ==
  IF s = <<>> THEN <<>>
  ELSE IF IsSpace(Head(s)) THEN TrimStart(Tail(s)) ELSE s

RECURSIVE TrimEnd(_)
TrimEnd(s) ==
  IF s = <<>> THEN <<>>
  ELSE IF IsSpace(s[Len(s)]) THEN TrimEnd(SubSeq(s, 1, Len(s) - 1)) ELSE s

\* String.prototype.trim
Trim(s) == TrimEnd(TrimStart(s))

\* Array.prototype.find: <<>> is undefined, <<t>> the first match
Find(s, id) ==
  LET m == SelectSeq(s, LAMBDA t : t.id = id)
  IN IF m = <<>> THEN <<>> ELSE <<Head(m)>>

\* insertion of t behind every element that does not compare greater
RECURSIVE InsertByCreatedAt(_, _)
InsertByCreatedAt(s, t) ==
  IF s = <<>> THEN <<t>>
  ELSE IF s[Len(s)].createdAt > t.createdAt
       THEN InsertByCreatedAt(SubSeq(s, 1, Len(s) - 1), t) \o <<s[Len(s)]>>
       ELSE s \o <<t>>

\* Array.prototype.sort((a, b) => a.createdAt - b.createdAt), a stable sort
RECURSIVE SortByCreatedAt(_)
SortByCreatedAt(s) ==
  IF s = <<>> THEN <<>>
  ELSE InsertByCreatedAt(SortByCreatedAt(SubSeq(s, 1, Len(s) - 1)), s[Len(s)])

\* JSON.stringify of a Task[]: each task becomes the tuple of its four
\* members, the boolean written as the literal true or false
StringifyTask(t) ==
  << t.id, t.text, IF t.done THEN "true" ELSE "false", t.createdAt >>

Stringify(s) == [i \in 1..Len(s) |-> StringifyTask(s[i])]

\* JSON.parse of such a value
\* (a parse that reads every task as not done)
ParseTaskNeverDone(j) ==
  [id |-> j[1], text |-> j[2], done |-> FALSE, createdAt |-> j[4]]

ParseTask(j) ==
  [id |-> j[1], text |-> j[2], done |-> (j[3] = "true"), createdAt |-> j[4]]

\* an array item that is not the text of a Task is the one-tuple of its
\* own text, and parses to a value without the members of a Task
ParseItem(j) == IF Len(j) = 4 THEN ParseTask(j) ELSE [json |-> j[1]]

Parse(j) == [i \in 1..Len(j) |-> ParseItem(j[i])]

\* the tasks.map(...) of toggleDone
ToggleMap(s, id) ==
  [i \in 1..Len(s) |->
     IF s[i].id = id THEN [s[i] EXCEPT !.done = ~s[i].done] ELSE s[i]]

\* the tasks.map(...) of saveEdit
EditMap(s, id, text) ==
  [i \in 1..Len(s) |->
     IF s[i].id = id THEN [s[i] EXCEPT !.text = text] ELSE s[i]]

\* the tasks.filter(...) of confirmDeleteTask
RemoveId(s, id) == SelectSeq(s, LAMBDA t : t.id # id)

\* the tasks.filter(...) of clearCompleted
Pending(s) == SelectSeq(s, LAMBDA t : ~t.done)
Completed(s) == SelectSeq(s, LAMBDA t : t.done)

\* the object literal of addTask, with the values of its two Date.now()
NewTask(text, id, createdAt) ==
  [id |-> id, text |-> text, done |-> FALSE, createdAt |-> createdAt]

\* the list undoDelete builds
Restored(s, t) == SortByCreatedAt(s \o <<t>>)

\* ------------------------------------------------------------- the record
\* of the last handler: its name and the toasts it raised; for a deletion
\* also the list and the undo slot it started from
Seen(op, msgs, seenTasks, seenUndo) ==
  [op |-> op, msgs |-> msgs, tasks |-> seenTasks, undo |-> seenUndo]

Note(op, msgs) == Seen(op, msgs, <<>>, <<>>)

\* ------------------------------------------------------------------- Init
\* the component after mount over an empty localStorage: loadTasks and
\* loadFilter find nothing and keep the useState defaults
Init ==
  /\ tasks = <<>>
  /\ filter = "all"
  /\ editingId = 0
  /\ editText = <<>>
  /\ showDeleteModal = FALSE
  /\ taskPendingDeleteId = 0
  /\ taskPendingDeleteText = <<>>
  /\ undoTaskData = <<>>
  /\ undoTimeoutId = 0
  /\ storedTasks = <<>>
  /\ storedFilter = <<>>
  /\ timers = {}
  /\ nextTimerId = 1
  /\ toasts = <<>>
  /\ now = 1
  /\ last = Note("mount", <<>>)

\* ------------------------------------------------------------- saveTasks
\* localStorage.setItem either stores the value or throws; setTasks is
\* reached only when it did not throw
SaveTasks(newTasks, ok) ==
  IF ok
  THEN /\ storedTasks' = << Stringify(newTasks) >>
       /\ tasks' = newTasks
  ELSE UNCHANGED << storedTasks, tasks >>

SaveMsgs(ok) == IF ok THEN <<>> ELSE << "save-error" >>

\* ---------------------------------------------------------------- addTask
\* the handler reads Date.now() twice, for id and for createdAt; late says
\* that the clock moved on by one step between the two reads
\* addTask testing the text as typed, not the trimmed text, for emptiness
AddTaskRawEmptyTest(text, ok, late, cap) ==
  LET trimmedText == Trim(text)
      lastTask == IF tasks = <<>> THEN <<>> ELSE << tasks[Len(tasks)] >>
  IN
  /\ Len(tasks) < cap \/ text = <<>>
       \/ (lastTask # <<>> /\ lastTask[1].text = trimmedText)
  /\ late => now < MaxUndoClock
  /\ IF text = <<>>
     THEN /\ UNCHANGED << tasks, storedTasks, now >>
          /\ last' = Note("addTask", <<>>)
     ELSE IF lastTask # <<>> /\ lastTask[1].text = trimmedText
     THEN /\ UNCHANGED << tasks, storedTasks, now >>
          /\ last' = Note("addTask", << "duplicate" >>)
     ELSE /\ now' = IF late THEN now + 1 ELSE now
          /\ SaveTasks(tasks \o << NewTask(trimmedText, now, now') >>, ok)
          /\ last' = Note("addTask", SaveMsgs(ok) \o << "added" >>)
  /\ UNCHANGED << filter, editingId, editText, showDeleteModal,
                  taskPendingDeleteId, taskPendingDeleteText, undoTaskData,
                  undoTimeoutId, storedFilter, timers, nextTimerId, toasts >>

AddTask(text, ok, late, cap) ==
  LET trimmedText == Trim(text)
      lastTask == IF tasks = <<>> THEN <<>> ELSE << tasks[Len(tasks)] >>
  IN
  /\ Len(tasks) < cap \/ trimmedText = <<>>
       \/ (lastTask # <<>> /\ lastTask[1].text = trimmedText)
  /\ late => now < MaxUndoClock
  /\ IF trimmedText = <<>>
     THEN /\ UNCHANGED << tasks, storedTasks, now >>
          /\ last' = Note("addTask", <<>>)
     ELSE IF lastTask # <<>> /\ lastTask[1].text = trimmedText
     THEN /\ UNCHANGED << tasks, storedTasks, now >>
          /\ last' = Note("addTask", << "duplicate" >>)
     ELSE /\ now' = IF late THEN now + 1 ELSE now
          /\ SaveTasks(tasks \o << NewTask(trimmedText, now, now') >>, ok)
          /\ last' = Note("addTask", SaveMsgs(ok) \o << "added" >>)
  /\ UNCHANGED << filter, editingId, editText, showDeleteModal,
                  taskPendingDeleteId, taskPendingDeleteText, undoTaskData,
                  undoTimeoutId, storedFilter, timers, nextTimerId, toasts >>

\* ------------------------------------------------------------- toggleDone
ToggleDone(id, ok) ==
  LET task == Find(tasks, id)
  IN
  /\ SaveTasks(ToggleMap(tasks, id), ok)
  /\ last' = Note("toggleDone", SaveMsgs(ok) \o (IF task = <<>> THEN <<>> ELSE IF task[1].done THEN << "reactivated" >> ELSE << "completed" >>))
  /\ UNCHANGED << filter, editingId, editText, showDeleteModal,
                  taskPendingDeleteId, taskPendingDeleteText, undoTaskData,
                  undoTimeoutId, storedFilter, timers, nextTimerId, toasts,
                  now >>

\* -------------------------------------------------------- openDeleteModal
\* openDeleteModal deleting at once, as a delete button without a modal would
OpenDeleteModalDeletes(id) ==
  LET taskToDelete == Find(tasks, id)
  IN
  /\ IF taskToDelete = <<>>
     THEN UNCHANGED << taskPendingDeleteId, taskPendingDeleteText,
                       showDeleteModal, tasks, storedTasks >>
     ELSE /\ taskPendingDeleteId' = id
          /\ taskPendingDeleteText' = taskToDelete[1].text
          /\ showDeleteModal' = TRUE
          /\ SaveTasks(RemoveId(tasks, id), TRUE)
  /\ last' = Note("openDeleteModal", <<>>)
  /\ UNCHANGED << filter, editingId, editText, undoTaskData,
                  undoTimeoutId, storedFilter, timers,
                  nextTimerId, toasts, now >>

OpenDeleteModal(id) ==
  LET taskToDelete == Find(tasks, id)
  IN
  /\ IF taskToDelete = <<>>
     THEN UNCHANGED << taskPendingDeleteId, taskPendingDeleteText,
                       showDeleteModal >>
     ELSE /\ taskPendingDeleteId' = id
          /\ taskPendingDeleteText' = taskToDelete[1].text
          /\ showDeleteModal' = TRUE
  /\ last' = Note("openDeleteModal", <<>>)
  /\ UNCHANGED << tasks, filter, editingId, editText, undoTaskData,
                  undoTimeoutId, storedTasks, storedFilter, timers,
                  nextTimerId, toasts, now >>

\* ------------------------------------------------------- closeDeleteModal
\* (its own setTimeout only moves the keyboard focus)
CloseDeleteModal ==
  /\ showDeleteModal' = FALSE
  /\ taskPendingDeleteId' = 0
  /\ taskPendingDeleteText' = <<>>
  /\ last' = Note("closeDeleteModal", <<>>)
  /\ UNCHANGED << tasks, filter, editingId, editText, undoTaskData,
                  undoTimeoutId, storedTasks, storedFilter, timers,
                  nextTimerId, toasts, now >>

\* ------------------------------------------------------ confirmDeleteTask
\* clearTimeout of a handle that is no longer pending does nothing
ClearTimeout(ts, id) == { t \in ts : t.id # id }

\* the toast carries the undoDelete of the render that ran the handler, so
\* its action reads this render's undoTaskData, tasks and undoTimeoutId.
\* undoDelete returns at once on a null undoTaskData, before it reads the
\* other two, so they are kept only beside a non-null undoTaskData
UndoToast ==
  [due |-> now + ToastDuration, undo |-> undoTaskData,
   tasks |-> IF undoTaskData = <<>> THEN <<>> ELSE tasks,
   timeoutId |-> IF undoTaskData = <<>> THEN 0 ELSE undoTimeoutId]

ConfirmDeleteTask(ok, cap) ==
  LET taskToDelete == Find(tasks, taskPendingDeleteId)
  IN
  IF taskPendingDeleteId = 0 \/ taskToDelete = <<>>
  THEN /\ last' = Note("confirmDeleteTask", <<>>)
       /\ UNCHANGED << tasks, filter, editingId, editText, showDeleteModal,
                       taskPendingDeleteId, taskPendingDeleteText,
                       undoTaskData, undoTimeoutId, storedTasks, storedFilter,
                       timers, nextTimerId, toasts, now >>
  ELSE /\ nextTimerId <= cap
       /\ SaveTasks(RemoveId(tasks, taskPendingDeleteId), ok)
       /\ undoTaskData' = taskToDelete
       /\ toasts' = Append(toasts, UndoToast)
       /\ timers' = ClearTimeout(timers, undoTimeoutId)
                      \cup { [id |-> nextTimerId, due |-> now + UndoDelay] }
       /\ undoTimeoutId' = nextTimerId
       /\ nextTimerId' = nextTimerId + 1
       /\ showDeleteModal' = FALSE
       /\ taskPendingDeleteId' = 0
       /\ taskPendingDeleteText' = <<>>
       /\ last' = Seen("confirmDeleteTask", SaveMsgs(ok) \o << "deleted" >>,
                       tasks, undoTaskData)
       /\ UNCHANGED << filter, editingId, editText, storedFilter, now >>

\* ------------------------------------------------------------- undoDelete
RemoveAt(s, i) == SubSeq(s, 1, i - 1) \o SubSeq(s, i + 1, Len(s))

\* the user presses "Desfazer" on the i-th live toast: undoDelete runs on
\* the state captured by that toast, and the toast goes away
UndoDelete(i, ok) ==
  LET c == toasts[i]
  IN
  /\ toasts' = RemoveAt(toasts, i)
  /\ IF c.undo = <<>>
     THEN /\ last' = Note("undoDelete", <<>>)
          /\ UNCHANGED << tasks, storedTasks, undoTaskData, undoTimeoutId,
                          timers >>
     ELSE /\ SaveTasks(Restored(c.tasks, c.undo[1]), ok)
          /\ undoTaskData' = <<>>
          /\ IF c.timeoutId # 0
             THEN /\ timers' = ClearTimeout(timers, c.timeoutId)
                  /\ undoTimeoutId' = 0
             ELSE UNCHANGED << timers, undoTimeoutId >>
          /\ last' = Note("undoDelete", SaveMsgs(ok) \o << "restored" >>)
  /\ UNCHANGED << filter, editingId, editText, showDeleteModal,
                  taskPendingDeleteId, taskPendingDeleteText, storedFilter,
                  nextTimerId, now >>

\* the callback of the setTimeout of confirmDeleteTask
UndoExpires(t) ==
  /\ t \in timers
  /\ now >= t.due
  /\ timers' = timers \ {t}
  /\ undoTaskData' = <<>>
  /\ last' = Note("undoExpires", <<>>)
  /\ UNCHANGED << tasks, filter, editingId, editText, showDeleteModal,
                  taskPendingDeleteId, taskPendingDeleteText, undoTimeoutId,
                  storedTasks, storedFilter, nextTimerId, toasts, now >>

\* a toast leaves the screen when its duration is over
ToastExpires(i) ==
  /\ now >= toasts[i].due
  /\ toasts' = RemoveAt(toasts, i)
  /\ last' = Note("toastExpires", <<>>)
  /\ UNCHANGED << tasks, filter, editingId, editText, showDeleteModal,
                  taskPendingDeleteId, taskPendingDeleteText, undoTaskData,
                  undoTimeoutId, storedTasks, storedFilter, timers,
                  nextTimerId, now >>

\* ------------------------------------------------------------------ edit
StartEdit(id, text) ==
  /\ editingId' = id
  /\ editText' = text
  /\ last' = Note("startEdit", <<>>)
  /\ UNCHANGED << tasks, filter, showDeleteModal, taskPendingDeleteId,
                  taskPendingDeleteText, undoTaskData, undoTimeoutId,
                  storedTasks, storedFilter, timers, nextTimerId, toasts,
                  now >>

\* onChange of the edit input, which exists while a task is being edited
ChangeEditText(text) ==
  /\ editingId # 0
  /\ editText' = text
  /\ last' = Note("changeEditText", <<>>)
  /\ UNCHANGED << tasks, filter, editingId, showDeleteModal,
                  taskPendingDeleteId, taskPendingDeleteText, undoTaskData,
                  undoTimeoutId, storedTasks, storedFilter, timers,
                  nextTimerId, toasts, now >>

\* saveEdit storing the text as typed once its trimmed form is not empty
SaveEditAsTyped(ok) ==
  LET trimmedText == Trim(editText)
  IN
  /\ IF editingId = 0
     THEN /\ last' = Note("saveEdit", <<>>)
          /\ UNCHANGED << tasks, storedTasks, editingId, editText >>
     ELSE IF trimmedText = <<>>
     THEN /\ last' = Note("saveEdit", << "empty-text" >>)
          /\ UNCHANGED << tasks, storedTasks, editingId, editText >>
     ELSE /\ SaveTasks(EditMap(tasks, editingId, editText), ok)
          /\ editingId' = 0
          /\ editText' = <<>>
          /\ last' = Note("saveEdit", SaveMsgs(ok) \o << "edited" >>)
  /\ UNCHANGED << filter, showDeleteModal, taskPendingDeleteId,
                  taskPendingDeleteText, undoTaskData, undoTimeoutId,
                  storedFilter, timers, nextTimerId, toasts, now >>

SaveEdit(ok) ==
  LET trimmedText == Trim(editText)
  IN
  /\ IF editingId = 0
     THEN /\ last' = Note("saveEdit", <<>>)
          /\ UNCHANGED << tasks, storedTasks, editingId, editText >>
     ELSE IF trimmedText = <<>>
     THEN /\ last' = Note("saveEdit", << "empty-text" >>)
          /\ UNCHANGED << tasks, storedTasks, editingId, editText >>
     ELSE /\ SaveTasks(EditMap(tasks, editingId, trimmedText), ok)
          /\ editingId' = 0
          /\ editText' = <<>>
          /\ last' = Note("saveEdit", SaveMsgs(ok) \o << "edited" >>)
  /\ UNCHANGED << filter, showDeleteModal, taskPendingDeleteId,
                  taskPendingDeleteText, undoTaskData, undoTimeoutId,
                  storedFilter, timers, nextTimerId, toasts, now >>

CancelEdit ==
  /\ editingId' = 0
  /\ editText' = <<>>
  /\ last' = Note("cancelEdit", <<>>)
  /\ UNCHANGED << tasks, filter, showDeleteModal, taskPendingDeleteId,
                  taskPendingDeleteText, undoTaskData, undoTimeoutId,
                  storedTasks, storedFilter, timers, nextTimerId, toasts,
                  now >>

\* --------------------------------------------------------- clearCompleted
ClearCompleted(ok) ==
  LET completedCount == Len(Completed(tasks))
  IN
  /\ IF completedCount = 0
     THEN /\ last' = Note("clearCompleted", <<>>)
          /\ UNCHANGED << tasks, storedTasks >>
     ELSE /\ SaveTasks(Pending(tasks), ok)
          /\ last' = Note("clearCompleted", SaveMsgs(ok) \o << "cleared" >>)
  /\ UNCHANGED << filter, editingId, editText, showDeleteModal,
                  taskPendingDeleteId, taskPendingDeleteText, undoTaskData,
                  undoTimeoutId, storedFilter, timers, nextTimerId, toasts,
                  now >>

\* ------------------------------------------------------------- saveFilter
SaveFilter(newFilter, ok) ==
  /\ IF ok
     THEN /\ storedFilter' = << newFilter >>
          /\ filter' = newFilter
     ELSE UNCHANGED << storedFilter, filter >>
  /\ last' = Note("saveFilter", <<>>)
  /\ UNCHANGED << tasks, editingId, editText, showDeleteModal,
                  taskPendingDeleteId, taskPendingDeleteText, undoTaskData,
                  undoTimeoutId, storedTasks, timers, nextTimerId, toasts,
                  now >>

\* (a filter whose default branch returns the pending tasks)
FilteredTasksDefaultPending(s, f) ==
  SelectSeq(s, LAMBDA t : CASE f = "pending" -> ~t.done
                            [] f = "completed" -> t.done
                            [] OTHER -> ~t.done)

\* the filteredTasks of a render
FilteredTasks(s, f) ==
  SelectSeq(s, LAMBDA t : CASE f = "pending" -> ~t.done
                            [] f = "completed" -> t.done
                            [] OTHER -> TRUE)

\* ------------------------------------------------------------------ time
\* the clock advances; a due timer or toast runs before it advances further
Tick(cap) ==
  /\ now < cap
  /\ \A t \in timers : now < t.due
  /\ \A i \in 1..Len(toasts) : now < toasts[i].due
  /\ now' = now + 1
  /\ UNCHANGED << last, tasks, filter, editingId, editText, showDeleteModal,
                  taskPendingDeleteId, taskPendingDeleteText, undoTaskData,
                  undoTimeoutId, storedTasks, storedFilter, timers,
                  nextTimerId, toasts >>

\* ------------------------------------------------------------------ Next
Ids == 1..MaxUndoClock

\* the list, the delete modal, the undo slot and the clock
Next ==
  \/ \E text \in InputTexts, ok \in BOOLEAN : AddTask(text, ok, FALSE, MaxTasks)
  \/ \E id \in Ids, ok \in BOOLEAN : ToggleDone(id, ok)
  \/ \E id \in Ids : OpenDeleteModal(id)
  \/ CloseDeleteModal
  \/ \E ok \in BOOLEAN : ConfirmDeleteTask(ok, MaxDeletes)
  \/ \E i \in 1..Len(toasts), ok \in BOOLEAN : UndoDelete(i, ok)
  \/ \E t \in timers : UndoExpires(t)
  \/ \E i \in 1..Len(toasts) : ToastExpires(i)
  \/ \E ok \in BOOLEAN : ClearCompleted(ok)
  \/ Tick(MaxClock)

Spec == Init /\ [][Next]_vars

\* the list and the inline edit
NextEdit ==
  \/ \E text \in InputTexts, ok \in BOOLEAN : AddTask(text, ok, FALSE, MaxTasks)
  \/ \E id \in Ids, ok \in BOOLEAN : ToggleDone(id, ok)
  \/ \E i \in 1..Len(tasks) : StartEdit(tasks[i].id, tasks[i].text)
  \/ \E text \in InputTexts : ChangeEditText(text)
  \/ \E ok \in BOOLEAN : SaveEdit(ok)
  \/ CancelEdit
  \/ \E ok \in BOOLEAN : ClearCompleted(ok)
  \/ Tick(MaxClock)

SpecEdit == Init /\ [][NextEdit]_vars

\* the list and its filter
NextList ==
  \/ \E text \in InputTexts, ok \in BOOLEAN : AddTask(text, ok, FALSE, MaxListTasks)
  \/ \E id \in Ids, ok \in BOOLEAN : ToggleDone(id, ok)
  \/ \E ok \in BOOLEAN : ClearCompleted(ok)
  \/ \E f \in Filters, ok \in BOOLEAN : SaveFilter(f, ok)
  \/ Tick(MaxClock)

SpecList == Init /\ [][NextList]_vars

\* runs of several deletions and undos: the list is filled first, and every
\* write is accepted
NextUndo ==
  \/ \E text \in InputTexts : nextTimerId = 1 /\ AddTask(text, TRUE, FALSE, MaxTasks)
  \/ \E id \in Ids : OpenDeleteModal(id)
  \/ CloseDeleteModal
  \/ ConfirmDeleteTask(TRUE, MaxUndoDeletes)
  \/ \E i \in 1..Len(toasts) : UndoDelete(i, TRUE)
  \/ \E t \in timers : UndoExpires(t)
  \/ \E i \in 1..Len(toasts) : ToastExpires(i)
  \/ Tick(MaxUndoClock)

SpecUndo == Init /\ [][NextUndo]_vars

\* the same runs, with adds whose two clock reads can differ
NextOrder ==
  \/ \E text \in InputTexts, late \in BOOLEAN :
       nextTimerId = 1 /\ AddTask(text, TRUE, late, MaxTasks)
  \/ \E id \in Ids : OpenDeleteModal(id)
  \/ CloseDeleteModal
  \/ ConfirmDeleteTask(TRUE, MaxUndoDeletes)
  \/ \E i \in 1..Len(toasts) : UndoDelete(i, TRUE)
  \/ \E t \in timers : UndoExpires(t)
  \/ \E i \in 1..Len(toasts) : ToastExpires(i)
  \/ Tick(MaxUndoClock)

SpecOrder == Init /\ [][NextOrder]_vars

\* ----------------------------------------------------------------- mount
\* texts that are not the text of an array, and the ones JSON.parse rejects
OtherTexts == { "", "{oops", "null", "42", "{}" }
Unparsable == { "{oops" }

\* array items that are not the text of a Task
OtherItems == { << "{}" >>, << "null" >> }

\* lists a previous session can have saved
SavedLists ==
  { <<>>,
    << NewTask(<<"a">>, 1, 1) >>,
    << [NewTask(<<"a">>, 1, 1) EXCEPT !.done = TRUE] >> }

\* loadTasks: the value setTasks is called with, in a one-tuple, and <<>>
\* when setTasks is not called
LoadTasks(stored) ==
  IF stored = <<>> THEN <<>>
  ELSE IF Len(stored) = 1 THEN << Parse(stored[1]) >>
  ELSE IF stored[2] = "" \/ stored[2] \in Unparsable THEN <<>>
  ELSE << [json |-> stored[2]] >>

\* JSON.parse threw and loadTasks logged it
LoadTasksThrows(stored) ==
  Len(stored) = 2 /\ stored[2] # "" /\ stored[2] \in Unparsable

\* the render after the load throws: tasks.filter of a value that is not an
\* array, or task.done of a null item
RenderThrows(stored) ==
  \/ Len(stored) = 2 /\ stored[2] # "" /\ stored[2] \notin Unparsable
  \/ Len(stored) = 1 /\ \E k \in 1..Len(stored[1]) : stored[1][k] = << "null" >>

\* loadFilter: the filter after it
LoadFilter(stored, current) ==
  IF stored # <<>> /\ stored[1] # "" /\ stored[1] \in Filters
  THEN stored[1] ELSE current

\* the component before its mount effect, over any localStorage
InitLoad ==
  /\ tasks = <<>>
  /\ filter = "all"
  /\ editingId = 0
  /\ editText = <<>>
  /\ showDeleteModal = FALSE
  /\ taskPendingDeleteId = 0
  /\ taskPendingDeleteText = <<>>
  /\ undoTaskData = <<>>
  /\ undoTimeoutId = 0
  /\ \/ storedTasks = <<>>
     \/ \E t \in OtherTexts : storedTasks = << "text", t >>
     \/ \E l \in SavedLists : storedTasks = << Stringify(l) >>
     \/ \E j \in OtherItems : storedTasks = << << j >> >>
  /\ \/ storedFilter = <<>>
     \/ \E f \in Filters \cup { "", "bogus" } : storedFilter = << f >>
  /\ timers = {}
  /\ nextTimerId = 1
  /\ toasts = <<>>
  /\ now = 2
  /\ last = Note("start", <<>>)

\* the mount effect: loadTasks, loadFilter, and the render that follows
Mount ==
  /\ last.op = "start"
  /\ tasks' = IF LoadTasks(storedTasks) = <<>> THEN tasks
              ELSE LoadTasks(storedTasks)[1]
  /\ filter' = LoadFilter(storedFilter, filter)
  /\ last' = Note("mount",
                  (IF storedTasks # <<>> /\ LoadTasksThrows(storedTasks)
                   THEN << "load-error" >> ELSE <<>>)
                  \o (IF storedTasks # <<>> /\ RenderThrows(storedTasks)
                      THEN << "render-error" >> ELSE <<>>))
  /\ UNCHANGED << editingId, editText, showDeleteModal, taskPendingDeleteId,
                  taskPendingDeleteText, undoTaskData, undoTimeoutId,
                  storedTasks, storedFilter, timers, nextTimerId, toasts,
                  now >>

IsTask(t) == DOMAIN t = { "id", "text", "done", "createdAt" }

\* the component is on the page with a list of Tasks; the model follows it
\* no further when the list holds other values
Running ==
  /\ last.op # "start"
  /\ \A k \in 1..Len(last.msgs) : last.msgs[k] # "render-error"
  /\ \A k \in 1..Len(tasks) : IsTask(tasks[k])

\* the start over a localStorage of any content
NextLoad ==
  \/ Mount
  \/ Running /\ \E text \in InputTexts, ok \in BOOLEAN :
                   AddTask(text, ok, FALSE, MaxTasks)
  \/ Running /\ \E id \in Ids, ok \in BOOLEAN : ToggleDone(id, ok)
  \/ Running /\ \E ok \in BOOLEAN : ClearCompleted(ok)
  \/ Running /\ \E f \in Filters, ok \in BOOLEAN : SaveFilter(f, ok)
  \/ Running /\ Tick(MaxClock)

SpecLoad == InitLoad /\ [][NextLoad]_vars

\* ----------------------------------------------------------------- claims
Has(msgs, m) == \E k \in 1..Len(msgs) : msgs[k] = m

\* the last handler was a confirmDeleteTask that went through to the end
Deleted == last.op = "confirmDeleteTask" /\ Has(last.msgs, "deleted")

\* C1: no two tasks of the list have the same id, in any reachable state
\* (adds within one clock value and rejected writes included).
C1_UniqueIds ==
  \A i, j \in 1..Len(tasks) : i # j => tasks[i].id # tasks[j].id

\* C2: when localStorage rejects the write of a mutating handler, the
\* in-memory list still becomes the list the handler computed, and the
\* failure is reported.
C2_RejectedWriteKeepsMutation ==
  [][ /\ \A text \in InputTexts :
           ( /\ AddTask(text, FALSE, FALSE, MaxTasks)
             /\ Trim(text) # <<>>
             /\ (tasks = <<>> \/ tasks[Len(tasks)].text # Trim(text)) )
           => /\ tasks' = Append(tasks, NewTask(Trim(text), now, now))
              /\ Has(last'.msgs, "save-error")
      /\ \A id \in Ids :
           ToggleDone(id, FALSE)
           => tasks' = ToggleMap(tasks, id) /\ Has(last'.msgs, "save-error")
      /\ ( /\ ConfirmDeleteTask(FALSE, MaxDeletes)
           /\ Find(tasks, taskPendingDeleteId) # <<>> )
         => /\ tasks' = RemoveId(tasks, taskPendingDeleteId)
            /\ Has(last'.msgs, "save-error")
      /\ \A i \in 1..Len(toasts) :
           (UndoDelete(i, FALSE) /\ toasts[i].undo # <<>>)
           => /\ tasks' = Restored(toasts[i].tasks, toasts[i].undo[1])
              /\ Has(last'.msgs, "save-error")
      /\ (ClearCompleted(FALSE) /\ Completed(tasks) # <<>>)
         => tasks' = Pending(tasks) /\ Has(last'.msgs, "save-error")
    ]_vars

\* C3: pressing the undo action of a deletion right after that deletion was
\* confirmed gives back the list as it was before the deletion: the same
\* tasks with the same fields in the same order.
C3_DeleteThenUndoRestores ==
  [][ \A ok \in BOOLEAN :
        (Deleted /\ toasts # <<>> /\ UndoDelete(Len(toasts), ok))
        => tasks' = last.tasks
    ]_vars

\* C4: undoDelete changes neither the list, nor the persisted list, nor the
\* undo slot when the undo slot is empty, and the slot is empty once the
\* expiry callback has run, so an undo after the expiry restores nothing.
C4_UndoOnEmptySlotIsNoOp ==
  [][ /\ \A i \in 1..Len(toasts), ok \in BOOLEAN :
           (undoTaskData = <<>> /\ UndoDelete(i, ok))
           => UNCHANGED << tasks, storedTasks, undoTaskData >>
      /\ (\E t \in timers : UndoExpires(t)) => undoTaskData' = <<>>
    ]_vars

\* C5: a deletion confirmed while the undo slot of an earlier deletion is
\* live cancels the earlier timer and puts its own task into the slot, and
\* from then on the slot is emptied only by an undo or by an expiry that
\* runs when the deadline of this newest deletion has passed.
C5_NewestDeletionOwnsExpiry ==
  [][ /\ ( /\ undoTaskData # <<>>
           /\ Find(tasks, taskPendingDeleteId) # <<>>
           /\ \E ok \in BOOLEAN : ConfirmDeleteTask(ok, MaxUndoDeletes) )
         => /\ undoTaskData' = Find(tasks, taskPendingDeleteId)
            /\ \A t \in timers' : t.id # undoTimeoutId
      /\ ( /\ Deleted /\ last.undo # <<>>
           /\ undoTaskData # <<>> /\ undoTaskData' = <<>> )
         => \/ \E i \in 1..Len(toasts), ok \in BOOLEAN : UndoDelete(i, ok)
            \/ /\ \E t \in timers : UndoExpires(t)
               /\ \A t \in timers : t.id = undoTimeoutId => now >= t.due
    ]_vars

\* C6: openDeleteModal and closeDeleteModal never change the list or the
\* persisted list: openDeleteModal stages the id and the text of a task of
\* the list and stages nothing for an id the list does not have, and
\* closeDeleteModal only empties what was staged.
C6_StagingLeavesListAlone ==
  [][ /\ \A id \in Ids :
           (last'.op = "openDeleteModal" /\ OpenDeleteModal(id))
           => /\ UNCHANGED << tasks, storedTasks, undoTaskData, timers >>
              /\ IF \E k \in 1..Len(tasks) : tasks[k].id = id
                 THEN /\ taskPendingDeleteId' = id
                      /\ \E k \in 1..Len(tasks) :
                           /\ tasks[k].id = id
                           /\ taskPendingDeleteText' = tasks[k].text
                 ELSE UNCHANGED << taskPendingDeleteId,
                                   taskPendingDeleteText >>
      /\ (last'.op = "closeDeleteModal" /\ CloseDeleteModal)
         => /\ UNCHANGED << tasks, storedTasks, undoTaskData, timers >>
            /\ taskPendingDeleteId' = 0
            /\ taskPendingDeleteText' = <<>>
      /\ last'.op \in {"openDeleteModal", "closeDeleteModal"}
         => UNCHANGED << tasks, storedTasks >>
      /\ Len(tasks') < Len(tasks)
         => last'.op \in {"confirmDeleteTask", "clearCompleted", "undoDelete"}
    ]_vars

\* a task is staged for deletion and is still in the list
C6_Witness ==
  /\ last.op = "openDeleteModal"
  /\ taskPendingDeleteId # 0
  /\ Find(tasks, taskPendingDeleteId) # <<>>
  /\ storedTasks = << Stringify(tasks) >>

\* C7: confirmDeleteTask with nothing staged changes nothing; with an id
\* staged it removes exactly the task of that id, leaving the others as
\* they are and in their order, puts the removed task into the undo slot
\* and leaves nothing staged.
C7_ConfirmRemovesExactlyStaged ==
  [][ \A ok \in BOOLEAN :
        ConfirmDeleteTask(ok, MaxDeletes)
        => IF taskPendingDeleteId = 0
           THEN UNCHANGED << tasks, storedTasks, undoTaskData,
                             taskPendingDeleteId >>
           ELSE \E k \in 1..Len(tasks) :
                  /\ tasks[k].id = taskPendingDeleteId
                  /\ tasks' = RemoveAt(tasks, k)
                  /\ undoTaskData' = << tasks[k] >>
                  /\ taskPendingDeleteId' = 0
    ]_vars

\* C8: addTask reports a duplicate and leaves the list alone exactly when
\* the trimmed text is the text of the last task of the whole list, under
\* any filter; a text that another task has and the last task has not is
\* appended as a new task.
C8_OnlyLastTaskBlocksAdd ==
  [][ \A text \in InputTexts, ok \in BOOLEAN :
        AddTask(text, ok, FALSE, MaxListTasks)
        => /\ Has(last'.msgs, "duplicate")
                <=> (tasks # <<>> /\ tasks[Len(tasks)].text = Trim(text))
           /\ Has(last'.msgs, "duplicate") => tasks' = tasks
           /\ ( /\ \E k \in 1..Len(tasks) : tasks[k].text = Trim(text)
                /\ tasks[Len(tasks)].text # Trim(text) )
              => /\ Len(tasks') = Len(tasks) + 1
                 /\ SubSeq(tasks', 1, Len(tasks)) = tasks
                 /\ tasks'[Len(tasks')].text = Trim(text)
    ]_vars

\* C9: addTask with a text that is empty or all whitespace leaves the list
\* and the persisted list as they are, in every state.
C9_BlankAddChangesNothing ==
  [][ \A text \in InputTexts, ok \in BOOLEAN :
        ( /\ last'.op = "addTask"
          /\ \A k \in 1..Len(text) : text[k] = " "
          /\ AddTask(text, ok, FALSE, MaxTasks) )
        => UNCHANGED << tasks, storedTasks >>
    ]_vars

\* addTask has returned on a blank text, with tasks in the list and in
\* localStorage
C9_Witness ==
  /\ last.op = "addTask"
  /\ last.msgs = <<>>
  /\ Len(tasks) = MaxTasks
  /\ storedTasks = << Stringify(tasks) >>

\* C10: saveEdit with an edit text that is empty after trimming leaves the
\* whole list as it is and reports the empty text; with any other text it
\* replaces the text of exactly the task being edited by the trimmed text
\* and changes nothing else.
C10_EditReplacesOneText ==
  [][ \A ok \in BOOLEAN :
        (SaveEdit(ok) /\ editingId # 0)
        => IF Trim(editText) = <<>>
           THEN tasks' = tasks /\ Has(last'.msgs, "empty-text")
           ELSE \/ /\ \A k \in 1..Len(tasks) : tasks[k].id # editingId
                   /\ tasks' = tasks
                \/ \E k \in 1..Len(tasks) :
                     /\ tasks[k].id = editingId
                     /\ tasks' = [tasks EXCEPT ![k].text = Trim(editText)]
    ]_vars

\* C11: in every state reached from an empty store, every task of the list
\* and every task of the persisted list has a text that is not empty and is
\* its own trimmed form.
C11_TextsTrimmedNonEmpty ==
  /\ \A k \in 1..Len(tasks) :
       tasks[k].text # <<>> /\ Trim(tasks[k].text) = tasks[k].text
  /\ storedTasks # <<>>
     => \A k \in 1..Len(storedTasks[1]) :
          /\ ParseTask(storedTasks[1][k]).text # <<>>
          /\ Trim(ParseTask(storedTasks[1][k]).text)
               = ParseTask(storedTasks[1][k]).text

\* an edit typed with blanks around it has been saved, after an add
C11_Witness ==
  /\ last.op = "saveEdit"
  /\ last.msgs = << "edited" >>
  /\ Len(tasks) = MaxTasks
  /\ \E k \in 1..Len(tasks) : tasks[k].text # tasks[1].text
  /\ storedTasks = << Stringify(tasks) >>

\* C12: the mount never fails and, when the persisted tasks are absent, not
\* parsable, or parsable but not an array of Tasks, leaves the list empty;
\* when the persisted filter is absent or not one of the three filters, it
\* leaves the filter at all.
C12_LoadNeverFailsStartup ==
  [][ Mount
      => /\ \A k \in 1..Len(last'.msgs) : last'.msgs[k] # "render-error"
         /\ ( \/ storedTasks = <<>>
              \/ Len(storedTasks) = 2
              \/ \E k \in 1..Len(storedTasks[1]) :
                   Len(storedTasks[1][k]) # 4 )
            => tasks' = <<>>
         /\ (storedFilter = <<>> \/ storedFilter[1] \notin Filters)
            => filter' = "all"
    ]_vars

\* C13: the value under the tasks key is the serialization of the list in
\* memory and the value under the filter key is the filter in memory, so
\* loadTasks and loadFilter of a restarted component give the same list,
\* in the same order, and the same filter.
C13_PersistedMirrorsMemory ==
  /\ storedTasks # <<>> => storedTasks[1] = Stringify(tasks)
  /\ storedFilter # <<>> => storedFilter[1] = filter
  /\ tasks = ( IF LoadTasks(storedTasks) = <<>> THEN <<>>
               ELSE LoadTasks(storedTasks)[1] )
  /\ filter = LoadFilter(storedFilter, "all")

\* a list with a done and a pending task is stored, under a stored filter
\* that is not the default
C13_Witness ==
  /\ \E k \in 1..Len(tasks) : tasks[k].done
  /\ \E k \in 1..Len(tasks) : ~tasks[k].done
  /\ storedTasks = << Stringify(tasks) >>
  /\ filter = "completed"
  /\ storedFilter = << "completed" >>

\* the task t is shown under the filter f
Shown(t, f) == f = "all" \/ (f = "pending" /\ ~t.done)
                         \/ (f = "completed" /\ t.done)

\* the number of tasks among the first i of s that are shown under f
RECURSIVE ShownUpTo(_, _, _)
ShownUpTo(s, f, i) ==
  IF i = 0 THEN 0
  ELSE ShownUpTo(s, f, i - 1) + (IF Shown(s[i], f) THEN 1 ELSE 0)

\* C14: under every filter, and so under the current one, filteredTasks is
\* the subsequence of the list, in list order, of exactly the pending tasks
\* under pending, exactly the done tasks under completed, and every task
\* under all.
C14_VisibleTasksIsFilteredSubsequence ==
  \A f \in Filters :
    LET r == FilteredTasks(tasks, f)
    IN /\ Len(r) = ShownUpTo(tasks, f, Len(tasks))
       /\ \A i \in 1..Len(tasks) :
            Shown(tasks[i], f) => r[ShownUpTo(tasks, f, i)] = tasks[i]
       /\ f = "all" => r = tasks

\* the current filter hides a task that stands between two shown ones
C14_Witness ==
  /\ filter = "pending"
  /\ Len(tasks) = MaxListTasks
  /\ ~tasks[1].done /\ tasks[2].done /\ ~tasks[3].done
  /\ Len(FilteredTasks(tasks, filter)) = 2

\* C15: clearCompleted leaves exactly the pending tasks, unchanged and in
\* their order, and reports a removal exactly when the list had done tasks
\* (the number it reports is the number of done tasks it counted); with no
\* done task it changes neither the list nor the persisted list.
C15_ClearCompletedRemovesDone ==
  [][ \A ok \in BOOLEAN :
        (last'.op = "clearCompleted" /\ ClearCompleted(ok))
        => /\ tasks' = SelectSeq(tasks, LAMBDA t : ~t.done)
           /\ Has(last'.msgs, "cleared")
                <=> (\E k \in 1..Len(tasks) : tasks[k].done)
           /\ (\A k \in 1..Len(tasks) : ~tasks[k].done)
              => UNCHANGED << tasks, storedTasks >>
    ]_vars

\* C16: toggleDone of an id the list has flips done of the task of that id
\* and changes no other field, no other task and no position, and reports
\* completed when done became true and reactivated when it became false;
\* for an id the list does not have it changes nothing and reports nothing.
C16_ToggleFlipsOneDone ==
  [][ \A id \in Ids, ok \in BOOLEAN :
        (last'.op = "toggleDone" /\ ToggleDone(id, ok))
        => IF \A k \in 1..Len(tasks) : tasks[k].id # id
           THEN /\ tasks' = tasks
                /\ ~Has(last'.msgs, "completed")
                /\ ~Has(last'.msgs, "reactivated")
           ELSE \E k \in 1..Len(tasks) :
                  /\ tasks[k].id = id
                  /\ tasks' = [tasks EXCEPT ![k].done = ~tasks[k].done]
                  /\ Has(last'.msgs, "completed") <=> tasks'[k].done
                  /\ Has(last'.msgs, "reactivated") <=> ~tasks'[k].done
    ]_vars

\* the number of places of s that hold t
Count(s, t) == Cardinality({ k \in 1..Len(s) : s[k] = t })

\* C17: an undo pressed while the undo slot is live, after an add, a toggle
\* or a clearCompleted that followed the deletion and changed the list,
\* works on the list of that moment: the list after it holds every task the list held just before,
\* as it was, and the task of the slot, and nothing else.
C17_UndoWorksOnCurrentList ==
  [][ \A i \in 1..Len(toasts), ok \in BOOLEAN :
        ( /\ undoTaskData # <<>>
          /\ last.op \in { "addTask", "toggleDone", "clearCompleted" }
          /\ last.msgs \in { << "added" >>, << "completed" >>,
                              << "reactivated" >>, << "cleared" >> }
          /\ UndoDelete(i, ok) )
        => /\ Len(tasks') = Len(tasks) + 1
           /\ \A k \in 1..Len(tasks') :
                Count(tasks', tasks'[k])
                  = Count(tasks \o undoTaskData, tasks'[k])
    ]_vars

\* C19: while the undo slot holds a task, the list holds no task of that
\* id.
C19_SlotTaskNotInList ==
  undoTaskData # <<>>
  => \A k \in 1..Len(tasks) : tasks[k].id # undoTaskData[1].id

\* C18: the list is always in the order in which its tasks were added.  In
\* SpecOrder every task is added before the first deletion, so all tasks
\* were once listed together in the order of their adds, which is the order
\* of their ids wherever the ids differ; no handler may change that order,
\* and an undo must put the restored task back where it stood, also among
\* tasks of the same createdAt.
C18_OrderIsInsertionOrder ==
  \A i, j \in 1..Len(tasks) : i < j => tasks[i].id <= tasks[j].id

====
